---- MODULE Spec2Model ----
(***************************************************************************)
(* Model of src/frontend/static/js/sub.js: the SUB-tree page controller.   *)
(* Client state (currentTree, currentSelectedId, the rendered node cards,  *)
(* the detail panel), the requests in flight between the page and the      *)
(* server, and the server-held datasets and session state.                 *)
(***************************************************************************)
EXTENDS Integers, Sequences, FiniteSets, Bags, TLC

VARIABLES
  currentTree,        \* sub.js:4   the loaded Tree, or NoTree for null
  currentSelectedId,  \* sub.js:5   a JS value: Null, Num(..) or Str(..)
  cards,              \* the .node-card elements under #sub-tree-root, in document order
  detailShown,        \* #detail-form is displayed (and #detail-empty is not)
  formQty,            \* the value of the #detail-qty input
  selectValue,        \* the value of #sub-select ("" while it has no option)
  changeBound,        \* the change listener of #sub-select is registered (sub.js:192)
  net,                \* bag of requests and responses in flight
  srvTrees,           \* server: dataset name -> flat node list
  session,            \* server: the session state {sub_name, selected_id}
  userActions,        \* number of user events handled so far
  last                \* the last step: the handler that ran, whether it succeeded, whether
                      \* it showed an alert() or let an error escape (an unhandled
                      \* rejection), and the selection and dataset name it started from

vars == <<currentTree, currentSelectedId, cards, detailShown, formQty, selectValue,
          changeBound, net, srvTrees, session, userActions, last>>

-----------------------------------------------------------------------------
(* JavaScript values: null, undefined, numbers and strings, each a record  *)
(* of the same shape so that any two can be compared.                      *)

Null == [k |-> "null", v |-> ""]

Undefined == [k |-> "undefined", v |-> ""]

Num(s) == [k |-> "num", v |-> s]

Str(s) == [k |-> "str", v |-> s]

Nullish(x) == x.k \in {"null", "undefined"}

\* String(x): the number 1 and the string "1" have the same string form.
String(x) ==
  CASE x.k = "null" -> Str("null")
    [] x.k = "undefined" -> Str("undefined")
    [] x.k = "num" -> Str(x.v)
    [] OTHER -> x

\* ToBoolean(x), as used by !x and if (x).
Truthy(x) == ~(Nullish(x) \/ x = Num("0") \/ x = Num("NaN") \/ x = Str(""))

\* The numeric value of the number literals the model uses.
NumVal(s) ==
  CASE s = "0" -> 0
    [] s = "1" -> 1
    [] s = "2" -> 2
    [] s = "3" -> 3
    [] OTHER -> 5

\* Number(s) of a form field: "5" is 5, a non-numeric string is NaN.
Number(s) == IF s \in {"0", "1", "2", "3", "5"} THEN Num(s) ELSE Num("NaN")

-----------------------------------------------------------------------------
(* Trees.                                                                  *)

NoTree == [loaded |-> FALSE, sub_name |-> "", nodes |-> <<>>]

Tree(name, nodes) == [loaded |-> TRUE, sub_name |-> name, nodes |-> nodes]

Node(id, pid, order) == [id |-> id, parent_id |-> pid, order |-> order, qty |-> Null]

\* currentTree.nodes?.find(n => String(n.id) === String(id)): the index of the
\* first such node, 0 when there is none.
FindNode(nodes, id) ==
  LET hits == {i \in 1..Len(nodes) : String(nodes[i].id) = String(id)}
  IN IF hits = {} THEN 0 ELSE CHOOSE i \in hits : \A j \in hits : i <= j

-----------------------------------------------------------------------------
(* Tree Builder: renderSubTree's childMap.                                 *)

\* The property key under which a node is filed: "ROOT" for a null or undefined
\* parent_id, else the parent_id converted to a property key.
BucketKey(n) == IF Nullish(n.parent_id) THEN "ROOT" ELSE String(n.parent_id).v

\* a.order ?? 0
OrderOf(n) == IF Nullish(n.order) THEN 0 ELSE NumVal(n.order.v)

\* The mutant of InsertByOrder: x goes before the elements that compare equal.
InsertBeforeEqual(nodes, x, s) ==
  LET before == SelectSeq(s, LAMBDA y : OrderOf(nodes[y]) < OrderOf(nodes[x]))
      after == SelectSeq(s, LAMBDA y : OrderOf(nodes[y]) >= OrderOf(nodes[x]))
  IN before \o <<x>> \o after

\* One step of the stable sort by (a.order ?? 0) - (b.order ?? 0): x, which
\* followed every element of s in the bucket, goes after those not greater.
InsertByOrder(nodes, x, s) ==
  LET before == SelectSeq(s, LAMBDA y : OrderOf(nodes[y]) <= OrderOf(nodes[x]))
      after == SelectSeq(s, LAMBDA y : OrderOf(nodes[y]) > OrderOf(nodes[x]))
  IN before \o <<x>> \o after

RECURSIVE SortBucket(_, _)
SortBucket(nodes, b) ==
  IF b = <<>> THEN <<>>
  ELSE InsertByOrder(nodes, b[Len(b)], SortBucket(nodes, SubSeq(b, 1, Len(b) - 1)))

\* Indices 1..n in increasing order, as a sequence.
Indices(n) == [i \in 1..n |-> i]

\* childMap[key] before the sort: the nodes filed under key, in list order.
Pushed(nodes, key) == SelectSeq(Indices(Len(nodes)), LAMBDA i : BucketKey(nodes[i]) = key)

\* childMap[key] || [] after the sort.
childMap(nodes, key) == SortBucket(nodes, Pushed(nodes, key))

-----------------------------------------------------------------------------
(* Renderer: createNodeWrapper, in document order.  A wrapper is recorded  *)
(* as [idx, depth]; idx 0 marks the point where the recursion exceeded     *)
(* every possible acyclic depth, i.e. does not return (RangeError).        *)

Overflow == [idx |-> 0, depth |-> 0]

RECURSIVE createNodeWrapper(_, _, _)
RECURSIVE WrapAll(_, _, _)
createNodeWrapper(nodes, i, depth) ==
  IF depth >= Len(nodes) THEN <<Overflow>>
  ELSE <<[idx |-> i, depth |-> depth]>>
         \o WrapAll(nodes, childMap(nodes, String(nodes[i].id).v), depth + 1)

WrapAll(nodes, children, depth) ==
  IF children = <<>> THEN <<>>
  ELSE createNodeWrapper(nodes, children[1], depth) \o WrapAll(nodes, Tail(children), depth)

Crashes(ws) == \E k \in 1..Len(ws) : ws[k].idx = 0

\* The wrappers appended to the container: those of the roots before the first
\* root whose wrapper cannot be built.
RECURSIVE AppendRoots(_, _)
AppendRoots(nodes, roots) ==
  IF roots = <<>> THEN <<>>
  ELSE LET w == createNodeWrapper(nodes, roots[1], 0)
       IN IF Crashes(w) THEN <<Overflow>> ELSE w \o AppendRoots(nodes, Tail(roots))

Rendered(nodes) == AppendRoots(nodes, childMap(nodes, "ROOT"))

-----------------------------------------------------------------------------
(* The page: the client state as one record c, and the functions of sub.js *)
(* that read and write it.                                                 *)

Client ==
  [currentTree |-> currentTree, currentSelectedId |-> currentSelectedId,
   cards |-> cards, detailShown |-> detailShown, formQty |-> formQty]

SetClient(c) ==
  /\ currentTree' = c.currentTree
  /\ currentSelectedId' = c.currentSelectedId
  /\ cards' = c.cards
  /\ detailShown' = c.detailShown
  /\ formQty' = c.formQty

updateSelectionHighlight(c) ==
  [c EXCEPT !.cards =
     [i \in DOMAIN c.cards |->
        [c.cards[i] EXCEPT !.selected = (c.cards[i].nodeId = String(c.currentSelectedId).v)]]]

\* setVal: el.value = (v ?? "")
FieldText(v) == IF Nullish(v) THEN "" ELSE String(v).v

updateDetailPanel(c) ==
  IF ~c.currentTree.loaded \/ ~Truthy(c.currentSelectedId)
  THEN [c EXCEPT !.detailShown = FALSE]
  ELSE LET i == FindNode(c.currentTree.nodes, c.currentSelectedId)
       IN IF i = 0
          THEN [c EXCEPT !.detailShown = FALSE]
          ELSE [c EXCEPT !.detailShown = TRUE,
                         !.formQty = FieldText(c.currentTree.nodes[i].qty)]

clearSelection(c) ==
  updateDetailPanel(updateSelectionHighlight([c EXCEPT !.currentSelectedId = Null]))

\* card.dataset.nodeId = node.id stores the string form; the click handler keeps node.
createNodeCard(node, depth) ==
  [nodeId |-> String(node.id).v, id |-> node.id, depth |-> depth, selected |-> FALSE]

\* renderSubTree does not return normally: createNodeWrapper recurses without end.
RenderThrows(c) ==
  /\ c.currentTree.loaded
  /\ c.currentTree.nodes # <<>>
  /\ Crashes(Rendered(c.currentTree.nodes))

\* One card per wrapper appended, in document order.
NodeCards(nodes, ws) ==
  [k \in DOMAIN ws |-> createNodeCard(nodes[ws[k].idx], ws[k].depth)]

\* renderSubTree from its placeholder test on: the container is filled.
FillContainer(c) ==
  IF ~c.currentTree.loaded \/ c.currentTree.nodes = <<>>
  THEN c
  ELSE [c EXCEPT !.cards =
          NodeCards(c.currentTree.nodes,
                    SelectSeq(Rendered(c.currentTree.nodes), LAMBDA w : w.idx # 0))]

\* The mutant of renderSubTree: the selection is not reset.
renderSubTreeKeepSelection(c) ==
  FillContainer(updateDetailPanel([c EXCEPT !.cards = <<>>]))

renderSubTree(c) ==
  FillContainer(updateDetailPanel([c EXCEPT !.cards = <<>>, !.currentSelectedId = Null]))

\* String.prototype.trim on the values typed into the quantity field.
Trim(s) == IF s = " " THEN "" ELSE s

\* applyLocalChanges throws: its renderSubTree does not return.
LocalThrows(c) ==
  /\ c.currentTree.loaded /\ Truthy(c.currentSelectedId)
  /\ FindNode(c.currentTree.nodes, c.currentSelectedId) # 0
  /\ RenderThrows(c)

\* The mutant of applyLocalChanges: the selection is not set again after the
\* re-render.
applyLocalChangesLosingSelection(c) ==
  IF ~c.currentTree.loaded \/ ~Truthy(c.currentSelectedId) THEN c
  ELSE LET i == FindNode(c.currentTree.nodes, c.currentSelectedId)
       IN IF i = 0 THEN c
          ELSE LET qtyVal == Trim(c.formQty)
                   c1 == [c EXCEPT !.currentTree.nodes[i].qty =
                                     IF qtyVal = "" THEN Null ELSE Number(qtyVal)]
               IN updateDetailPanel(updateSelectionHighlight(renderSubTree(c1)))

\* applyLocalChanges: the form is written onto the selected node, the tree is
\* rendered again and the selection is set to the node's id.  (The four text
\* fields are copied like qty, without conversion.)
applyLocalChanges(c) ==
  IF ~c.currentTree.loaded \/ ~Truthy(c.currentSelectedId) THEN c
  ELSE LET i == FindNode(c.currentTree.nodes, c.currentSelectedId)
       IN IF i = 0 THEN c
          ELSE LET qtyVal == Trim(c.formQty)
                   c1 == [c EXCEPT !.currentTree.nodes[i].qty =
                                     IF qtyVal = "" THEN Null ELSE Number(qtyVal)]
                   keepId == c1.currentTree.nodes[i].id
                   c2 == renderSubTree(c1)
               IN IF RenderThrows(c1) THEN c2
                  ELSE updateDetailPanel(updateSelectionHighlight(
                         [c2 EXCEPT !.currentSelectedId = keepId]))

-----------------------------------------------------------------------------
(* Requests and responses in flight.  A request is issued at stage "req"; *)
(* the server turns it into a response "ok" (2xx) or "bad" (non-2xx); the  *)
(* network may lose either, which the page sees as stage "err" (fetch      *)
(* rejects).  h names the awaiting continuation.                           *)

State(sub, sel) == [sub_name |-> sub, selected_id |-> sel]

NoState == State(Null, Null)

Req(kind, h) ==
  [kind |-> kind, stage |-> "req", h |-> h, sub |-> "", id |-> "", qty |-> Null,
   st |-> NoState, tree |-> NoTree]

Add(b, m) == b (+) SetToBag({m})

Remove(b, m) == b (-) SetToBag({m})

InFlight == BagCardinality(net)

\* fetch(API_BASE + "/api/state", { method: "POST", body: {sub_name, selected_id} })
PostState(h, sub, sel) == [Req("postState", h) EXCEPT !.st = State(sub, sel)]

\* saveSessionState(subName, selectedId)
saveSessionState(h, sub, sel) == PostState(h, sub, sel)

\* fetch(`/api/subs/${subName}/tree`)
GetTree(h, sub) == [Req("tree", h) EXCEPT !.sub = sub]

\* currentTree?.sub_name ?? null
SubNameOrNull(t) == IF t.loaded THEN Str(t.sub_name) ELSE Null

-----------------------------------------------------------------------------
(* The server, at its boundary (spec.md section 6): the datasets and the   *)
(* session state.                                                          *)

\* GET /api/subs: the dataset names, in the order the server lists them.
SubList == <<"X", "Y">>

SubNames == {SubList[i] : i \in 1..Len(SubList)}

\* The datasets as first stored: X is 1 -> 2, Y is 0 -> 1.
BaseNodes(name) ==
  IF name = "X"
  THEN <<Node(Num("1"), Null, Num("0")), Node(Num("2"), Num("1"), Num("0"))>>
  ELSE <<Node(Num("0"), Null, Num("0")), Node(Num("1"), Num("0"), Num("0"))>>

\* The values a user types into the quantity field.
QtyInputs == {"", "5"}

\* PATCH /api/subs/{name}/nodes/{id}: the stored list with the node's fields replaced.
PatchedNodes(nodes, id, qty) ==
  LET i == FindNode(nodes, Str(id))
  IN [nodes EXCEPT ![i].qty = qty]

\* The response the server gives to request m, and the state it leaves.
Serve(m) ==
  /\ m.stage = "req"
  /\ CASE m.kind = "tree" ->
            /\ net' = Add(Remove(net, m),
                          IF m.sub \in SubNames
                          THEN [m EXCEPT !.stage = "ok", !.tree = Tree(m.sub, srvTrees[m.sub])]
                          ELSE [m EXCEPT !.stage = "bad"])
            /\ UNCHANGED <<srvTrees, session>>
       [] m.kind = "upload" ->
            /\ srvTrees' = [srvTrees EXCEPT ![m.sub] = BaseNodes(m.sub)]
            /\ net' = Add(Remove(net, m),
                          [m EXCEPT !.stage = "ok", !.tree = Tree(m.sub, BaseNodes(m.sub))])
            /\ UNCHANGED session
       [] m.kind = "patch" ->
            IF m.sub \in SubNames /\ FindNode(srvTrees[m.sub], Str(m.id)) # 0
            THEN LET nodes == PatchedNodes(srvTrees[m.sub], m.id, m.qty)
                 IN /\ srvTrees' = [srvTrees EXCEPT ![m.sub] = nodes]
                    /\ net' = Add(Remove(net, m),
                                  [m EXCEPT !.stage = "ok", !.tree = Tree(m.sub, nodes)])
                    /\ UNCHANGED session
            ELSE /\ net' = Add(Remove(net, m), [m EXCEPT !.stage = "bad"])
                 /\ UNCHANGED <<srvTrees, session>>
       [] m.kind = "getState" ->
            /\ net' = Add(Remove(net, m), [m EXCEPT !.stage = "ok", !.st = session])
            /\ UNCHANGED <<srvTrees, session>>
       [] m.kind = "postState" ->
            /\ session' = m.st
            /\ net' = Add(Remove(net, m), [m EXCEPT !.stage = "ok"])
            /\ UNCHANGED srvTrees
       [] OTHER ->
            /\ net' = Add(Remove(net, m), [m EXCEPT !.stage = "ok"])
            /\ UNCHANGED <<srvTrees, session>>

\* The server answers with a non-2xx status and changes nothing.
Reject(m) ==
  /\ m.stage = "req"
  /\ net' = Add(Remove(net, m), [m EXCEPT !.stage = "bad"])
  /\ UNCHANGED <<srvTrees, session>>

\* The request or its response is lost: fetch rejects.
Lose(m) ==
  /\ m.stage \in {"req", "ok", "bad"}
  /\ net' = Add(Remove(net, m), [m EXCEPT !.stage = "err", !.tree = NoTree, !.st = NoState])
  /\ UNCHANGED <<srvTrees, session>>

-----------------------------------------------------------------------------
(* Bounds.                                                                 *)

MaxUserActions == 2

MaxInFlight == 2

-----------------------------------------------------------------------------
(* Steps.  Every step records in last which handler ran, whether it took   *)
(* its success path, and the selection and dataset name it started from.   *)

Outcome(ev, ok, alert, escaped) ==
  last' = [ev |-> ev, ok |-> ok, alert |-> alert, escaped |-> escaped,
           sel |-> currentSelectedId, sub |-> currentTree.sub_name]

Step(ev, ok) == Outcome(ev, ok, FALSE, FALSE)

clientVars == <<currentTree, currentSelectedId, cards, detailShown, formQty>>

pageVars == <<selectValue, changeBound>>

serverVars == <<srvTrees, session>>

User(k) ==
  /\ userActions < MaxUserActions
  /\ InFlight + k <= MaxInFlight
  /\ userActions' = userActions + 1

\* The mutant of Startup: restoreSessionState() is called twice.
StartupTwice ==
  Add(Add(Add(EmptyBag, Req("subs", "loadSubList")), Req("getState", "restore")),
      Req("getState", "restore"))

\* The requests issued at DOMContentLoaded: loadSubList() and restoreSessionState().
Startup == Add(Add(EmptyBag, Req("subs", "loadSubList")), Req("getState", "restore"))

\* The session state an earlier visit may have left on the server: none, or
\* dataset Y with its node 1 selected.
EarlierSessions == {NoState, State(Str("Y"), Str("1"))}

Init ==
  /\ currentTree = NoTree
  /\ currentSelectedId = Null
  /\ cards = <<>>
  /\ detailShown = FALSE
  /\ formQty = ""
  /\ selectValue = ""
  /\ changeBound = FALSE
  /\ net = Startup
  /\ srvTrees = [n \in SubNames |-> BaseNodes(n)]
  /\ session \in EarlierSessions
  /\ userActions = 0
  /\ last = [ev |-> "init", ok |-> TRUE, alert |-> FALSE, escaped |-> FALSE,
             sel |-> Null, sub |-> ""]

\* The page is loaded again: the script runs from the top; what was in flight
\* is abandoned.
Reload ==
  /\ userActions < MaxUserActions
  /\ userActions' = userActions + 1
  /\ SetClient([currentTree |-> NoTree, currentSelectedId |-> Null, cards |-> <<>>,
                detailShown |-> FALSE, formQty |-> ""])
  /\ selectValue' = ""
  /\ changeBound' = FALSE
  /\ net' = Startup
  /\ Step("reload", TRUE)
  /\ UNCHANGED <<srvTrees, session>>

\* The click listener of a node card (createNodeCard).
ClickCard(i) ==
  /\ User(1)
  /\ LET id == cards[i].id
         c1 == updateDetailPanel(updateSelectionHighlight(
                 [Client EXCEPT !.currentSelectedId = id]))
     IN /\ SetClient(c1)
        /\ net' = IF currentTree.loaded
                  THEN Add(net, saveSessionState("cardClick", Str(currentTree.sub_name),
                                                 String(id)))
                  ELSE net
  /\ Step("cardClick", TRUE)
  /\ UNCHANGED <<pageVars, serverVars>>

\* The click listener of #sub-tree-root (bindClearOnBackgroundClick).
ClickBackground ==
  /\ User(0)
  /\ SetClient(clearSelection(Client))
  /\ Step("backgroundClick", TRUE)
  /\ UNCHANGED <<pageVars, net, serverVars>>

\* The two click listeners of #btn-clear-selection, in registration order.
ClickClear ==
  /\ User(2)
  /\ LET c1 == clearSelection(Client)
         p1 == saveSessionState("clear1", SubNameOrNull(c1.currentTree), Null)
         c2 == updateDetailPanel([c1 EXCEPT !.currentSelectedId = Null])
         p2 == PostState("clear2", SubNameOrNull(c2.currentTree), Null)
     IN /\ SetClient(c2)
        /\ net' = Add(Add(net, p1), p2)
  /\ Step("clearClick", TRUE)
  /\ UNCHANGED <<pageVars, serverVars>>

\* The change listener of #sub-select: clearSelection(); loadSubTree().
ChangeSelect(v) ==
  /\ changeBound
  /\ v # selectValue
  /\ User(1)
  /\ selectValue' = v
  /\ SetClient(clearSelection(Client))
  /\ net' = Add(net, GetTree("loadSubTree", v))
  /\ Step("selectChange", TRUE)
  /\ UNCHANGED <<changeBound, serverVars>>

\* The click listener of #btn-expand-all: renderSubTree.
ClickExpandAll ==
  /\ User(0)
  /\ SetClient(renderSubTree(Client))
  /\ Outcome("expandAll", ~RenderThrows(Client), FALSE, RenderThrows(Client))
  /\ UNCHANGED <<pageVars, net, serverVars>>

\* The click listener of #btn-reset-node: resetSelectedNode, then loadSubTree.
ClickReset ==
  /\ currentTree.loaded
  /\ Truthy(currentSelectedId)
  /\ selectValue # ""
  /\ User(1)
  /\ net' = Add(net, GetTree("loadSubTree", selectValue))
  /\ Step("resetClick", TRUE)
  /\ UNCHANGED <<clientVars, pageVars, serverVars>>

\* The click listeners of #btn-apply-local, in registration order: the one of
\* bindDetailPanelEvents and the one registered after it.
ApplyListeners == <<"apply1", "apply2">>

\* JSON.stringify writes NaN as null.
Json(x) == IF x = Num("NaN") THEN Null ELSE x

\* The mutant of applyAndPersistSelectedNode: the quantity is sent as typed,
\* a string.
applyAndPersistSelectedNodeRawQty(h, c) ==
  [Req("patch", h) EXCEPT !.sub = c.currentTree.sub_name,
                          !.id = String(c.currentSelectedId).v,
                          !.qty = IF c.formQty = "" THEN Null ELSE Str(c.formQty)]

\* applyAndPersistSelectedNode up to its await: the PATCH it issues.
applyAndPersistSelectedNode(h, c) ==
  [Req("patch", h) EXCEPT !.sub = c.currentTree.sub_name,
                          !.id = String(c.currentSelectedId).v,
                          !.qty = Json(IF c.formQty = "" THEN Null ELSE Number(c.formQty))]

RECURSIVE IssueAll(_, _, _)
IssueAll(b, hs, c) ==
  IF hs = <<>> THEN b
  ELSE IssueAll(Add(b, applyAndPersistSelectedNode(hs[1], c)), Tail(hs), c)

ClickApply ==
  /\ currentTree.loaded
  /\ ~Nullish(currentSelectedId)
  /\ User(Len(ApplyListeners))
  /\ net' = IssueAll(net, ApplyListeners, Client)
  /\ Step("applyClick", TRUE)
  /\ UNCHANGED <<clientVars, pageVars, serverVars>>

\* A file is chosen in #excel-file: handleExcelFileSelected up to its await.
Upload(f) ==
  /\ User(1)
  /\ net' = Add(net, [Req("upload", "upload") EXCEPT !.sub = f])
  /\ Step("uploadChosen", TRUE)
  /\ UNCHANGED <<clientVars, pageVars, serverVars>>

\* The user types into the quantity field of the visible form.
EditQty(v) ==
  /\ detailShown
  /\ v # formQty
  /\ User(0)
  /\ formQty' = v
  /\ Step("editQty", TRUE)
  /\ UNCHANGED <<currentTree, currentSelectedId, cards, detailShown, pageVars, net,
                 serverVars>>

-----------------------------------------------------------------------------
(* Continuations: what each handler does when its awaited fetch settles.   *)

Settled(m) == m.stage \in {"ok", "bad", "err"}

\* loadSubList after its fetch: the options are added (the first becomes the
\* value) and the change listener is registered; any failure is logged.
loadSubListDone(m) ==
  /\ m.kind = "subs" /\ Settled(m)
  /\ net' = Remove(net, m)
  /\ IF m.stage = "ok"
     THEN /\ selectValue' = IF SubList = <<>> THEN "" ELSE SubList[1]
          /\ changeBound' = TRUE
     ELSE UNCHANGED pageVars
  /\ Step("loadSubListDone", m.stage = "ok")
  /\ UNCHANGED <<clientVars, serverVars, userActions>>

\* loadSubTree after its fetch.
loadSubTreeDone(m) ==
  /\ m.kind = "tree" /\ m.h = "loadSubTree" /\ Settled(m)
  /\ net' = Remove(net, m)
  /\ IF m.stage = "ok"
     THEN SetClient(renderSubTree([Client EXCEPT !.currentTree = m.tree]))
     ELSE UNCHANGED clientVars
  /\ Step("loadSubTreeDone", m.stage = "ok")
  /\ UNCHANGED <<pageVars, serverVars, userActions>>

\* handleExcelFileSelected after its fetch.
uploadDone(m) ==
  /\ m.kind = "upload" /\ Settled(m)
  /\ IF m.stage = "ok"
     THEN LET c0 == [Client EXCEPT !.currentTree = m.tree]
              c1 == renderSubTree(c0)
          IN /\ SetClient(c1)
             /\ net' = IF RenderThrows(c0)
                       THEN Remove(net, m)
                       ELSE Add(Remove(net, m),
                                saveSessionState("uploadSave", Str(c1.currentTree.sub_name),
                                                 Null))
     ELSE /\ net' = Remove(net, m)
          /\ UNCHANGED clientVars
  /\ Step("uploadDone", m.stage = "ok")
  /\ UNCHANGED <<pageVars, serverVars, userActions>>

\* applyAndPersistSelectedNode after its fetch, and the listener that awaited
\* it: the second one catches and alerts, the first one does not catch.
applyDone(m) ==
  /\ m.kind = "patch" /\ Settled(m)
  /\ net' = Remove(net, m)
  /\ LET c0 == [Client EXCEPT !.currentTree = m.tree]
         c1 == renderSubTree(c0)
         c2 == updateDetailPanel([c1 EXCEPT !.currentSelectedId = Str(m.id)])
         threw == m.stage # "ok" \/ RenderThrows(c0)
     IN /\ IF m.stage # "ok" THEN UNCHANGED clientVars
           ELSE IF RenderThrows(c0) THEN SetClient(c1)
           ELSE SetClient(c2)
        /\ Outcome("applyDone", ~threw, threw /\ m.h = "apply2", threw /\ m.h = "apply1")
  /\ UNCHANGED <<pageVars, serverVars, userActions>>

\* restoreSessionState after GET /api/state.
restoreStateDone(m) ==
  /\ m.kind = "getState" /\ Settled(m)
  /\ net' = IF m.stage = "ok" /\ Truthy(m.st.sub_name)
            THEN Add(Remove(net, m),
                     [GetTree("restoreTree", m.st.sub_name.v) EXCEPT !.st = m.st])
            ELSE Remove(net, m)
  /\ Step("restoreStateDone", m.stage = "ok")
  /\ UNCHANGED <<clientVars, pageVars, serverVars, userActions>>

\* The mutant of restoreTreeDone: treeRes.ok is not tested, the body of a
\* non-2xx response is taken for the tree.
restoreTreeDoneUnchecked(m) ==
  /\ m.kind = "tree" /\ m.h = "restoreTree" /\ Settled(m)
  /\ net' = Remove(net, m)
  /\ LET c0 == [Client EXCEPT !.currentTree = m.tree]
         c1 == renderSubTree(c0)
         c2 == updateDetailPanel([c1 EXCEPT !.currentSelectedId = m.st.selected_id])
     IN IF m.stage = "err" THEN UNCHANGED clientVars
        ELSE IF RenderThrows(c0) \/ ~Truthy(m.st.selected_id) THEN SetClient(c1)
        ELSE SetClient(c2)
  /\ Step("restoreTreeDone", m.stage = "ok")
  /\ UNCHANGED <<pageVars, serverVars, userActions>>

\* restoreSessionState after the tree fetch.
restoreTreeDone(m) ==
  /\ m.kind = "tree" /\ m.h = "restoreTree" /\ Settled(m)
  /\ net' = Remove(net, m)
  /\ LET c0 == [Client EXCEPT !.currentTree = m.tree]
         c1 == renderSubTree(c0)
         c2 == updateDetailPanel([c1 EXCEPT !.currentSelectedId = m.st.selected_id])
     IN IF m.stage # "ok" THEN UNCHANGED clientVars
        ELSE IF RenderThrows(c0) \/ ~Truthy(m.st.selected_id) THEN SetClient(c1)
        ELSE SetClient(c2)
  /\ Step("restoreTreeDone", m.stage = "ok")
  /\ UNCHANGED <<pageVars, serverVars, userActions>>

\* saveSessionState after its fetch: a rejection is caught and logged.
saveSessionStateDone(m) ==
  /\ m.kind = "postState" /\ m.h # "clear2" /\ Settled(m)
  /\ net' = Remove(net, m)
  /\ Step("saveDone", m.stage # "err")
  /\ UNCHANGED <<clientVars, pageVars, serverVars, userActions>>

\* The second clear listener after its fetch: nothing catches a rejection.
clearPostDone(m) ==
  /\ m.kind = "postState" /\ m.h = "clear2" /\ Settled(m)
  /\ net' = Remove(net, m)
  /\ Outcome("clearPostDone", m.stage # "err", FALSE, m.stage = "err")
  /\ UNCHANGED <<clientVars, pageVars, serverVars, userActions>>

\* The server answers a request, or the network loses a message.
Network ==
  /\ \E m \in BagToSet(net) : Serve(m) \/ Reject(m) \/ Lose(m)
  /\ Step("net", TRUE)
  /\ UNCHANGED <<clientVars, pageVars, userActions>>

Deliver ==
  \E m \in BagToSet(net) :
    \/ loadSubListDone(m)
    \/ loadSubTreeDone(m)
    \/ uploadDone(m)
    \/ applyDone(m)
    \/ restoreStateDone(m)
    \/ restoreTreeDone(m)
    \/ saveSessionStateDone(m)
    \/ clearPostDone(m)

UserEvent ==
  \/ \E i \in DOMAIN cards : ClickCard(i)
  \/ ClickBackground
  \/ ClickClear
  \/ \E v \in SubNames : ChangeSelect(v)
  \/ ClickExpandAll
  \/ ClickReset
  \/ ClickApply
  \/ \E f \in SubNames : Upload(f)
  \/ \E v \in QtyInputs : EditQty(v)
  \/ Reload

Next == UserEvent \/ Deliver \/ Network

Spec == Init /\ [][Next]_vars

-----------------------------------------------------------------------------
(* The page opened on a session state whose selected_id the dataset no     *)
(* longer has: the session is held by the server for all visits, and the   *)
(* dataset has been uploaded again since the selection was stored.         *)

StaleSessions == {State(Str("Y"), Str("2"))}

InitRestore ==
  /\ currentTree = NoTree
  /\ currentSelectedId = Null
  /\ cards = <<>>
  /\ detailShown = FALSE
  /\ formQty = ""
  /\ selectValue = ""
  /\ changeBound = FALSE
  /\ net = Startup
  /\ srvTrees = [n \in SubNames |-> BaseNodes(n)]
  /\ session \in StaleSessions
  /\ userActions = 0
  /\ last = [ev |-> "init", ok |-> TRUE, alert |-> FALSE, escaped |-> FALSE,
             sel |-> Null, sub |-> ""]

SpecRestore == InitRestore /\ [][Next]_vars

-----------------------------------------------------------------------------
(* The Tree Builder and the Renderer on arbitrary flat node lists: a tree  *)
(* with unique ids is put together node by node and then rendered.         *)

MaxNodes == 3

\* Ids: a number, the string with the same string form, and other numbers.
RenderIds == {Num("1"), Str("1"), Num("2"), Num("3")}

\* parent_id: null, a number that may be an id, or a string that names no node.
RenderParents == {Null, Str("ROOT"), Num("1"), Num("2")}

\* order: absent, 0 or 1.
RenderOrders == {Null, Num("0"), Num("1")}

InitRender ==
  /\ currentTree = Tree("X", <<>>)
  /\ currentSelectedId = Null
  /\ cards = <<>>
  /\ detailShown = FALSE
  /\ formQty = ""
  /\ selectValue = ""
  /\ changeBound = FALSE
  /\ net = EmptyBag
  /\ srvTrees = [n \in SubNames |-> BaseNodes(n)]
  /\ session = NoState
  /\ userActions = 0
  /\ last = [ev |-> "init", ok |-> TRUE, alert |-> FALSE, escaped |-> FALSE,
             sel |-> Null, sub |-> ""]

\* currentTree = await res.json(); renderSubTree(): the list delivered has one
\* more node than the one before.
RenderTree(id, pid, order) ==
  /\ Len(currentTree.nodes) < MaxNodes
  /\ \A i \in 1..Len(currentTree.nodes) : currentTree.nodes[i].id # id
  /\ LET c0 == [Client EXCEPT !.currentTree.nodes = Append(@, Node(id, pid, order))]
     IN /\ SetClient(renderSubTree(c0))
        /\ Outcome("render", ~RenderThrows(c0), FALSE, RenderThrows(c0))
  /\ UNCHANGED <<pageVars, net, serverVars, userActions>>

NextRender ==
  \E id \in RenderIds, pid \in RenderParents, order \in RenderOrders :
    RenderTree(id, pid, order)

SpecRender == InitRender /\ [][NextRender]_vars

-----------------------------------------------------------------------------
(* Local apply: applyLocalChanges on the pages a loaded dataset gives.  No  *)
(* listener of sub.js calls the function, so it is applied here to each     *)
(* state of a page whose user selects nodes and edits the quantity field.   *)

\* The values typed into the quantity field before a local apply.
LocalQtyInputs == {"", " ", "5", "abc"}

\* The page after restoreSessionState has restored dataset n with selection s.
InitLocal ==
  /\ \E n \in SubNames, s \in {Null, Str("1")} :
       LET c0 == [currentTree |-> Tree(n, BaseNodes(n)), currentSelectedId |-> Null,
                  cards |-> <<>>, detailShown |-> FALSE, formQty |-> ""]
           c1 == renderSubTree(c0)
           c2 == IF Truthy(s)
                 THEN updateDetailPanel([c1 EXCEPT !.currentSelectedId = s])
                 ELSE c1
       IN /\ currentTree = c2.currentTree
          /\ currentSelectedId = c2.currentSelectedId
          /\ cards = c2.cards
          /\ detailShown = c2.detailShown
          /\ formQty = c2.formQty
          /\ session = State(Str(n), s)
  /\ selectValue = SubList[1]
  /\ changeBound = TRUE
  /\ net = EmptyBag
  /\ srvTrees = [n \in SubNames |-> BaseNodes(n)]
  /\ userActions = 0
  /\ last = [ev |-> "init", ok |-> TRUE, alert |-> FALSE, escaped |-> FALSE,
             sel |-> Null, sub |-> ""]

\* applyLocalChanges is called.
ApplyLocal ==
  /\ SetClient(applyLocalChanges(Client))
  /\ Outcome("applyLocal", ~LocalThrows(Client), FALSE, LocalThrows(Client))
  /\ UNCHANGED <<pageVars, net, serverVars, userActions>>

NextLocal ==
  \/ \E i \in DOMAIN cards : ClickCard(i)
  \/ ClickBackground
  \/ \E v \in LocalQtyInputs : EditQty(v)
  \/ ApplyLocal
  \/ \E m \in BagToSet(net) : saveSessionStateDone(m)
  \/ Network

SpecLocal == InitLocal /\ [][NextLocal]_vars

-----------------------------------------------------------------------------
(* Properties of the rendered tree.                                        *)

\* The node a card was created for (ids are unique in the list).
NodeOfCard(k) ==
  CHOOSE i \in 1..Len(currentTree.nodes) : currentTree.nodes[i].id = cards[k].id

\* Cards k1 < k2 are children of the same wrapper (or both root wrappers).
SiblingCards(k1, k2) ==
  /\ k1 < k2
  /\ cards[k1].depth = cards[k2].depth
  /\ \A j \in k1..k2 : cards[j].depth >= cards[k1].depth

\* The node that n's parent_id names, 0 when it names none.
ParentOf(nodes, i) ==
  LET ps == {j \in 1..Len(nodes) : nodes[j].id = nodes[i].parent_id}
  IN IF ps = {} THEN 0 ELSE CHOOSE j \in ps : TRUE

RECURSIVE ChainEndsAtNull(_, _, _)
ChainEndsAtNull(nodes, i, fuel) ==
  IF Nullish(nodes[i].parent_id) THEN TRUE
  ELSE IF fuel = 0 \/ ParentOf(nodes, i) = 0 THEN FALSE
  ELSE ChainEndsAtNull(nodes, ParentOf(nodes, i), fuel - 1)

BucketKeys(nodes) == {"ROOT"} \cup {BucketKey(nodes[i]) : i \in 1..Len(nodes)}

InBucket(nodes, key, i) == \E k \in 1..Len(Pushed(nodes, key)) : Pushed(nodes, key)[k] = i

\* C8: for every flat node list with unique ids, each node is in exactly one
\* parent bucket, and the rendered tree holds exactly one wrapper for each node
\* whose parent chain ends at a null parent and none for any other node.
C8_EachRootedNodeRenderedOnce ==
  last.ev = "render" =>
    LET nodes == currentTree.nodes
    IN \A i \in 1..Len(nodes) :
         /\ Cardinality({key \in BucketKeys(nodes) : InBucket(nodes, key, i)}) = 1
         /\ Cardinality({k \in DOMAIN cards : cards[k].id = nodes[i].id})
              = IF ChainEndsAtNull(nodes, i, Len(nodes)) THEN 1 ELSE 0

\* C9: within every parent bucket the children are rendered in non-decreasing
\* order (a missing order counts as 0), and siblings of equal order are rendered
\* in the order in which they appear in the flat node list.
C9_SiblingsSortedStably ==
  last.ev = "render" =>
    \A k1, k2 \in DOMAIN cards :
      SiblingCards(k1, k2) =>
        LET n1 == currentTree.nodes[NodeOfCard(k1)]
            n2 == currentTree.nodes[NodeOfCard(k2)]
        IN /\ OrderOf(n1) <= OrderOf(n2)
           /\ OrderOf(n1) = OrderOf(n2) => NodeOfCard(k1) < NodeOfCard(k2)

\* C9's case: three rendered siblings, of which two tie (one through a missing
\* order) and one was moved by the sort.
C9_Witness ==
  /\ last.ev = "render"
  /\ \E k1, k2, k3 \in DOMAIN cards :
       /\ SiblingCards(k1, k2) /\ SiblingCards(k2, k3)
       /\ Nullish(currentTree.nodes[NodeOfCard(k1)].order)
       /\ currentTree.nodes[NodeOfCard(k2)].order = Num("0")
       /\ currentTree.nodes[NodeOfCard(k3)].order = Num("1")
       /\ NodeOfCard(k3) < NodeOfCard(k1)

\* C17: rendering returns without error for every flat node list with unique
\* ids, also for lists with parent cycles, self-parented nodes and parent_ids
\* that name no node.
C17_RenderTerminates ==
  last.ev = "render" => last.ok /\ ~last.escaped

-----------------------------------------------------------------------------
(* Properties of the page and the session.                                 *)

\* The number of requests of one kind that are in flight and not yet answered.
Pending(b, kind) ==
  LET ms == {m \in DOMAIN b : m.kind = kind /\ m.stage = "req"}
  IN IF ms = {} THEN 0 ELSE BagCardinality([m \in ms |-> b[m]])

\* The selected_id a save of selection x carries: null, or the id as a string.
SelectedIdOf(x) == IF Nullish(x) THEN Null ELSE String(x)

\* The session state that mirrors the client state.
ClientState(tree, sel) == State(SubNameOrNull(tree), SelectedIdOf(sel))

\* The client state as the session sees it differs between the two states of a step.
ClientStateChanged ==
  ClientState(currentTree', currentSelectedId') # ClientState(currentTree, currentSelectedId)

\* The step issued a POST /api/state carrying the resulting client state.
PostedResultingState ==
  \E m \in DOMAIN net' :
    /\ m.kind = "postState" /\ m.stage = "req"
    /\ m.st = ClientState(currentTree', currentSelectedId')
    /\ CopiesIn(m, net') > CopiesIn(m, net)

\* C1: every user action that changes the active dataset or the selection
\* (card click, clear button, background click, dropdown change, expand-all,
\* upload, successful persisted apply) issues a POST /api/state whose body
\* carries the client's resulting (currentTree.sub_name, currentSelectedId).
C1_StateChangeIsPosted ==
  [][(/\ \/ last'.ev \in {"cardClick", "clearClick", "backgroundClick", "selectChange",
                          "expandAll"}
         \/ last'.ev \in {"loadSubTreeDone", "uploadDone", "applyDone"} /\ last'.ok
      /\ ClientStateChanged)
       => PostedResultingState]_vars

\* C2: whenever no request is in flight, the server-held session state equals
\* the client state: session.sub_name is currentTree's sub_name (null without a
\* tree) and session.selected_id is String(currentSelectedId) (null without a
\* selection).
C2_SessionMirrorsClient ==
  net = EmptyBag => session = ClientState(currentTree, currentSelectedId)

\* C3: one click on the apply button, with a tree loaded and a node selected,
\* issues exactly one PATCH request.
C3_OneClickOnePatch ==
  [][last'.ev = "applyClick" => Pending(net', "patch") = Pending(net, "patch") + 1]_vars

\* C4: when the PATCH of a persisted apply fails, an alert is shown, currentTree
\* and currentSelectedId are as they were, and no request is issued.
C4_FailedPatchAlertsAndKeepsState ==
  [][(last'.ev = "applyDone" /\ ~last'.ok) =>
       /\ last'.alert
       /\ UNCHANGED <<currentTree, currentSelectedId>>
       /\ BagCardinality(net') < BagCardinality(net)]_vars

\* C5: once the tree of the dataset chosen in the dropdown is the current tree,
\* a late response of loadSubTree for another dataset does not replace it.
C5_StaleTreeResponseDiscarded ==
  [][(/\ last'.ev = "loadSubTreeDone"
      /\ currentTree.loaded
      /\ currentTree.sub_name = selectValue)
       => currentTree'.sub_name = selectValue]_vars

\* At most one card is marked selected; one is marked exactly when
\* currentSelectedId names a node of the current tree, and it is that node's card.
HighlightMatchesSelection ==
  LET marked == {k \in DOMAIN cards : cards[k].selected}
      named == ~Nullish(currentSelectedId)
                 /\ FindNode(currentTree.nodes, currentSelectedId) # 0
  IN /\ Cardinality(marked) <= 1
     /\ (marked # {}) <=> named
     /\ \A k \in marked : cards[k].nodeId = String(currentSelectedId).v

\* C6: after any render (tree load, upload, persisted apply, session restore,
\* expand-all), once the operation has finished, the selected marker matches
\* currentSelectedId.
C6_HighlightAfterRender ==
  (/\ last.ev \in {"loadSubTreeDone", "uploadDone", "applyDone", "restoreTreeDone",
                   "expandAll"}
   /\ last.ok)
    => HighlightMatchesSelection

\* C7: when a dataset has been loaded successfully through the dropdown or an
\* upload, currentSelectedId is null and the detail panel shows its empty state,
\* whatever was selected before.
C7_LoadClearsSelection ==
  (last.ev \in {"loadSubTreeDone", "uploadDone"} /\ last.ok)
    => currentSelectedId = Null /\ ~detailShown

\* C7's case: a node was selected, a different dataset that has a node of the
\* same id was then loaded, and nothing is selected.
C7_Witness ==
  /\ last.ev \in {"loadSubTreeDone", "uploadDone"} /\ last.ok
  /\ ~Nullish(last.sel)
  /\ last.sub # "" /\ last.sub # currentTree.sub_name
  /\ FindNode(currentTree.nodes, last.sel) # 0
  /\ currentSelectedId = Null /\ ~detailShown

\* C10: selecting or clearing sets currentSelectedId in the click itself, and
\* a failed POST /api/state changes neither currentTree nor currentSelectedId,
\* shows no alert and lets no error escape its handler.
C10_SaveFailureIsSilent ==
  [][/\ last'.ev \in {"clearClick", "backgroundClick"} => currentSelectedId' = Null
     /\ last'.ev = "cardClick" => ~Nullish(currentSelectedId')
     /\ (last'.ev \in {"saveDone", "clearPostDone"} /\ ~last'.ok) =>
          /\ UNCHANGED <<currentTree, currentSelectedId>>
          /\ ~last'.alert
          /\ ~last'.escaped]_vars

\* The number of messages of one kind in flight, at any stage.
Issued(b, kind) ==
  LET ms == {m \in DOMAIN b : m.kind = kind}
  IN IF ms = {} THEN 0 ELSE BagCardinality([m \in ms |-> b[m]])

\* The step is restoreSessionState receiving a session state without sub_name.
RestoreGotNoSubName ==
  /\ last'.ev = "restoreStateDone" /\ last'.ok
  /\ \E m \in DOMAIN net : m.kind = "getState" /\ m.stage = "ok" /\ m.st.sub_name = Null

\* C11: when the startup GET /api/state returns sub_name null, restore issues
\* no tree fetch and leaves currentTree and currentSelectedId as they are
\* (null); GET /api/state is issued once per page load, never again.
C11_NullSessionRestoresNothing ==
  [][/\ RestoreGotNoSubName =>
          /\ Issued(net', "tree") = Issued(net, "tree")
          /\ UNCHANGED <<currentTree, currentSelectedId>>
          /\ userActions = 0 => currentTree' = NoTree /\ currentSelectedId' = Null
     /\ Issued(net', "getState") <= 1
     /\ Issued(net', "getState") > Issued(net, "getState") => last'.ev = "reload"]_vars

\* C11's case: the state GET was answered with the empty session state, no
\* tree fetch followed, and the page has no tree and no selection.
C11_Witness ==
  /\ last.ev = "restoreStateDone" /\ last.ok
  /\ session = NoState
  /\ Issued(net, "tree") = 0
  /\ currentTree = NoTree /\ currentSelectedId = Null

\* C12: when the state GET or the tree GET of restore fails (rejected fetch or
\* non-2xx), restore changes neither currentTree nor currentSelectedId, shows
\* no alert, lets no error escape and issues no request; without a user
\* action the page stays without a dataset.
C12_FailedRestoreIsSilent ==
  [][(last'.ev \in {"restoreStateDone", "restoreTreeDone"} /\ ~last'.ok) =>
       /\ UNCHANGED <<currentTree, currentSelectedId, cards, detailShown>>
       /\ ~last'.alert /\ ~last'.escaped
       /\ BagCardinality(net') = BagCardinality(net) - 1
       /\ userActions = 0 => currentTree' = NoTree /\ currentSelectedId' = Null]_vars

\* C12's case: the tree GET of restore failed after the state GET had named a
\* dataset and a selection, and the page is in its default state.
C12_Witness ==
  /\ last.ev = "restoreTreeDone" /\ ~last.ok
  /\ Truthy(session.sub_name) /\ Truthy(session.selected_id)
  /\ userActions = 0
  /\ currentTree = NoTree /\ currentSelectedId = Null /\ ~detailShown

\* The requests of one kind that a step has added to those in flight.
NewRequests(kind) ==
  {m \in DOMAIN net' : m.kind = kind /\ m.stage = "req" /\ CopiesIn(m, net') > CopiesIn(m, net)}

\* C14: the PATCH of a persisted apply carries qty as a number when the
\* quantity field holds a numeric string ("5" is sent as 5) and as null when
\* the field is empty, and is addressed to the selected node's id under the
\* current tree's sub_name.
C14_PatchBody ==
  [][last'.ev = "applyClick" =>
       /\ NewRequests("patch") # {}
       /\ \A m \in NewRequests("patch") :
            /\ m.sub = currentTree.sub_name
            /\ Str(m.id) = SelectedIdOf(currentSelectedId)
            /\ formQty = "" => m.qty = Null
            /\ formQty = "5" => m.qty = Num("5")]_vars

\* C14's case: node 1 is selected, 5 was typed into the quantity field, and
\* the apply click has issued a PATCH for node 1 carrying the number 5.
C14_Witness ==
  /\ last.ev = "applyClick"
  /\ formQty = "5"
  /\ \E m \in DOMAIN net :
       /\ m.kind = "patch" /\ m.stage = "req"
       /\ m.sub = currentTree.sub_name /\ m.id = "1" /\ m.qty = Num("5")
       /\ FindNode(currentTree.nodes, currentSelectedId) = FindNode(currentTree.nodes, Str(m.id))

\* C15: the success continuation of a PATCH changes client state only if it
\* is still the state the PATCH was issued against: when another dataset has
\* become the current tree it does not bring back the patched dataset's tree,
\* and when the selection has changed or been cleared it does not set
\* currentSelectedId back to the patched node's id.
C15_PatchCompletionRevalidates ==
  [][(last'.ev = "applyDone" /\ last'.ok) =>
       \A m \in DOMAIN net :
         (m.kind = "patch" /\ m.stage = "ok" /\ net' = Remove(net, m)) =>
           /\ m.sub # currentTree.sub_name => currentTree'.sub_name # m.sub
           /\ SelectedIdOf(currentSelectedId) # Str(m.id)
                => SelectedIdOf(currentSelectedId') # Str(m.id)]_vars

\* C16: after a click on the card of any node of the current tree (whatever
\* its id: the number 0, a number or a string), exactly one card is marked
\* selected, it is that node's card, and the detail panel is visible and
\* shows that node's fields.
C16_CardClickSelects ==
  last.ev = "cardClick" =>
    LET marked == {k \in DOMAIN cards : cards[k].selected}
    IN /\ Cardinality(marked) = 1
       /\ \A k \in marked : cards[k].id = currentSelectedId
       /\ detailShown
       /\ \E j \in 1..Len(currentTree.nodes) :
            /\ currentTree.nodes[j].id = currentSelectedId
            /\ formQty = FieldText(currentTree.nodes[j].qty)

\* C18: in every reachable state currentSelectedId is null or names a node
\* of the current tree, whatever selected_id the session restore was given.
C18_SelectionNamesNode ==
  Nullish(currentSelectedId) \/ FindNode(currentTree.nodes, currentSelectedId) # 0

\* C19: a click on the reset button, with a tree loaded and a node selected,
\* fetches the dataset that is the current tree, so that the tree the fetch
\* delivers has the sub_name the current tree had at the click.
C19_ResetReloadsActiveDataset ==
  [][/\ last'.ev = "resetClick" =>
          /\ NewRequests("tree") # {}
          /\ \A m \in NewRequests("tree") : m.sub = currentTree.sub_name
     /\ (last'.ev = "loadSubTreeDone" /\ last'.ok) =>
          \E m \in DOMAIN net :
            /\ m.kind = "tree" /\ m.stage = "ok" /\ net' = Remove(net, m)
            /\ currentTree'.sub_name = m.sub]_vars

-----------------------------------------------------------------------------
(* Properties of local apply.                                              *)

\* The nodes that id names, by the string form of their ids.
NodesNamed(nodes, id) == {j \in 1..Len(nodes) : String(nodes[j].id) = String(id)}

\* A value of the quantity field that is neither empty nor numeric.
NotNumeric(s) == Trim(s) # "" /\ Number(Trim(s)) = Num("NaN")

\* C13: local apply issues no request and leaves the server's trees and
\* session state unchanged; on the client only the fields of the selected node
\* change, and afterwards currentSelectedId is the id selected before.
C13_LocalApplyIsLocal ==
  [][last'.ev = "applyLocal" =>
       /\ UNCHANGED <<net, srvTrees, session>>
       /\ currentTree'.loaded = currentTree.loaded
       /\ currentTree'.sub_name = currentTree.sub_name
       /\ Len(currentTree'.nodes) = Len(currentTree.nodes)
       /\ \A j \in 1..Len(currentTree.nodes) :
            /\ [currentTree'.nodes[j] EXCEPT !.qty = Null]
                 = [currentTree.nodes[j] EXCEPT !.qty = Null]
            /\ j \notin NodesNamed(currentTree.nodes, currentSelectedId)
                 => currentTree'.nodes[j] = currentTree.nodes[j]
       /\ SelectedIdOf(currentSelectedId') = SelectedIdOf(currentSelectedId)]_vars

\* C13's case: a node was selected, 5 was typed into the quantity field and
\* local apply wrote it onto that node, which is still selected and marked.
C13_Witness ==
  /\ last.ev = "applyLocal" /\ last.ok
  /\ ~Nullish(last.sel)
  /\ ~Nullish(currentSelectedId)
  /\ \E j \in NodesNamed(currentTree.nodes, currentSelectedId) :
       currentTree.nodes[j].qty = Num("5")
  /\ \E k \in DOMAIN cards : cards[k].selected
  /\ net = EmptyBag

\* C20: local apply with a quantity that is neither empty nor numeric is
\* rejected: currentTree keeps its values, and no node ever holds a
\* not-a-number qty.
C20_NonNumericQtyRejected ==
  [][last'.ev = "applyLocal" =>
       /\ NotNumeric(formQty) => currentTree' = currentTree
       /\ \A j \in 1..Len(currentTree'.nodes) :
            currentTree'.nodes[j].qty # Num("NaN")]_vars

====
